---- MODULE Spec2Model ----
(***************************************************************************)
(* Snapshot reconciliation engine of sheet-sql-connect: the per-sheet     *)
(* sync lock (lib/sync-lock.js), the diff engine (lib/diff-engine.js),    *)
(* the snapshot store (lib/database/sync.js) and the sync request         *)
(* handlers that combine them (app/api/sync/route.js,                     *)
(* app/api/sync/drive-webhook/route.js).                                  *)
(*                                                                         *)
(* Strings are sequences of one-character strings, so that concatenation, *)
(* sorting and sanitising are computed as the code computes them.         *)
(* SHA-256 is taken to be injective: a digest is represented by the       *)
(* canonical string it is computed from.                                  *)
(*                                                                         *)
(* Scheduling: Node.js runs every continuation to completion, so the code *)
(* between two awaits that wait for I/O or a timer is one atomic action.  *)
(***************************************************************************)
EXTENDS Integers, Sequences, FiniteSets, TLC

(* ------------------------------- bounds -------------------------------- *)
\* number of sync requests (each runs one reconciliation pass)
NumCallers == 3
\* number of clock ticks the contention wait window is divided into
WaitTicks == 2
\* longest source sheet (rows)
MaxRows == 2
\* number of rows a table holds at most when a row is inserted by hand
MaxEntries == 1

Callers == 1..NumCallers
Keys == {"s1", "s2"}

(* ------------------------------ strings -------------------------------- *)
Null == <<"<null>">>

CharCode(ch) ==
    CASE ch = " " -> 32
      [] ch = "1" -> 49
      [] ch = ":" -> 58
      [] ch = "A" -> 65
      [] ch = "_" -> 95
      [] ch = "a" -> 97
      [] ch = "b" -> 98
      [] ch = "x" -> 120
      [] ch = "|" -> 124

\* a < b in the order of Array.prototype.sort() without a comparator
\* (lexicographic by UTF-16 code unit)
RECURSIVE StrLess(_, _)
StrLess(a, b) ==
    IF b = <<>> THEN FALSE
    ELSE IF a = <<>> THEN TRUE
    ELSE IF CharCode(Head(a)) # CharCode(Head(b))
         THEN CharCode(Head(a)) < CharCode(Head(b))
         ELSE StrLess(Tail(a), Tail(b))

RECURSIVE Join(_, _)
Join(parts, sep) ==
    IF parts = <<>> THEN <<>>
    ELSE IF Len(parts) = 1 THEN parts[1]
    ELSE parts[1] \o sep \o Join(Tail(parts), sep)

Max(a, b) == IF a > b THEN a ELSE b

(* ------------------ schema.js: sanitizeColumnName ---------------------- *)
IsAlnumUnderscore(ch) == ch \in {"1", "A", "_", "a", "b", "x"}
IsDigit(ch) == ch \in {"1"}
ToLowerCase(ch) == IF ch = "A" THEN "a" ELSE ch

RECURSIVE TrimStart(_)
TrimStart(s) ==
    IF s # <<>> /\ Head(s) = " " THEN TrimStart(Tail(s)) ELSE s

RECURSIVE TrimEnd(_)
TrimEnd(s) ==
    IF s # <<>> /\ s[Len(s)] = " " THEN TrimEnd(SubSeq(s, 1, Len(s) - 1)) ELSE s

\* .replace(/[^a-zA-Z0-9_]/g, '_')
ReplaceSpecial(s) ==
    [i \in 1..Len(s) |-> IF IsAlnumUnderscore(s[i]) THEN s[i] ELSE "_"]

\* .replace(/_+/g, '_')
RECURSIVE CollapseUnderscores(_)
CollapseUnderscores(s) ==
    IF Len(s) < 2 THEN s
    ELSE IF s[1] = "_" /\ s[2] = "_" THEN CollapseUnderscores(Tail(s))
    ELSE <<s[1]>> \o CollapseUnderscores(Tail(s))

\* .toLowerCase()
LowerCased(s) == [i \in 1..Len(s) |-> ToLowerCase(s[i])]

\* if (/^[0-9]/.test(sanitized)) sanitized = `col_${sanitized}`
ColPrefixed(s) ==
    IF s # <<>> /\ IsDigit(s[1]) THEN <<"c", "o", "l", "_">> \o s ELSE s

\* sanitized.substring(0, 63) || 'unnamed_column'
Truncated(s) ==
    IF s = <<>>
    THEN <<"u","n","n","a","m","e","d","_","c","o","l","u","m","n">>
    ELSE SubSeq(s, 1, IF Len(s) < 63 THEN Len(s) ELSE 63)

sanitizeColumnName(columnName) ==
    Truncated(ColPrefixed(LowerCased(CollapseUnderscores(ReplaceSpecial(
        TrimEnd(TrimStart(columnName)))))))

(* ------------------ diff-engine.js: computeRowHash --------------------- *)
\* value === null || value === undefined ? '' : String(value)
Normalize(row, col) ==
    IF col \notin DOMAIN row \/ row[col] = Null THEN <<>> ELSE row[col]

\* Object.keys(normalized).sort(): the distinct columns in ascending order
RECURSIVE SortKeys(_)
SortKeys(S) ==
    IF S = {} THEN <<>>
    ELSE LET m == CHOOSE x \in S : \A y \in S \ {x} : StrLess(x, y)
         IN <<m>> \o SortKeys(S \ {m})

\* sortedKeys.map(key => `${key}:${normalized[key]}`).join('|')
NormalizedString(row, sortedKeys) ==
    Join([i \in 1..Len(sortedKeys) |->
             sortedKeys[i] \o <<":">> \o Normalize(row, sortedKeys[i])],
         <<"|">>)

\* a hash that joins the keys in the order of `columns`, unsorted
computeRowHashUnsorted(row, columns) == NormalizedString(row, columns)

computeRowHash(row, columns) ==
    NormalizedString(row, SortKeys({columns[i] : i \in 1..Len(columns)}))

(* ---------------------- diff-engine.js: computeDiff -------------------- *)
\* a stored hash that is used as it is, also when it is empty
DbRowHashStoredOnly(dbRow, columns) == dbRow.row_hash

\* dbRow.row_hash || computeRowHash(dbRow, columns)
DbRowHash(dbRow, columns) ==
    IF dbRow.row_hash # <<>> THEN dbRow.row_hash
    ELSE computeRowHash(dbRow.row, columns)

\* the classification of one position of the loop over 0..maxIndex-1
\* (positions are 1-based here)
DiffKind(sheetRows, dbRows, columns, index) ==
    IF index <= Len(sheetRows) /\ index > Len(dbRows) THEN "insert"
    ELSE IF index > Len(sheetRows) /\ index <= Len(dbRows) THEN "delete"
    ELSE IF index <= Len(sheetRows) /\ index <= Len(dbRows)
            /\ computeRowHash(sheetRows[index], columns)
                 # DbRowHash(dbRows[index], columns)
         THEN "update"
    ELSE "unchanged"

RECURSIVE DiffItems(_, _, _, _, _)
DiffItems(sheetRows, dbRows, columns, kind, index) ==
    IF index > Max(Len(sheetRows), Len(dbRows)) THEN <<>>
    ELSE LET rest == DiffItems(sheetRows, dbRows, columns, kind, index + 1)
             item ==
               IF kind = "delete"
               THEN [row |-> dbRows[index].row,
                     hash |-> DbRowHash(dbRows[index], columns),
                     dbId |-> dbRows[index].id,
                     index |-> index - 1]
               ELSE [row |-> sheetRows[index],
                     hash |-> computeRowHash(sheetRows[index], columns),
                     dbId |-> IF kind = "update" THEN dbRows[index].id ELSE 0,
                     index |-> index - 1]
         IN IF DiffKind(sheetRows, dbRows, columns, index) = kind
            THEN <<item>> \o rest
            ELSE rest

\* a result whose unchanged count also subtracts the deletes
DiffResultLessDeletes(sheetRows, inserts, updates, deletes) ==
    [inserts |-> inserts,
     updates |-> updates,
     deletes |-> deletes,
     unchanged |-> Len(sheetRows) - Len(inserts) - Len(updates) - Len(deletes)]

\* the object computeDiff returns
DiffResult(sheetRows, inserts, updates, deletes) ==
    [inserts |-> inserts,
     updates |-> updates,
     deletes |-> deletes,
     unchanged |-> Len(sheetRows) - Len(inserts) - Len(updates)]

computeDiff(sheetRows, dbRows, columns) ==
    DiffResult(sheetRows,
               DiffItems(sheetRows, dbRows, columns, "insert", 1),
               DiffItems(sheetRows, dbRows, columns, "update", 1),
               DiffItems(sheetRows, dbRows, columns, "delete", 1))

(* --------------------- database/sync.js: the store --------------------- *)
\* deleted_at IS NULL
NullTs == 0
\* CURRENT_TIMESTAMP (any non-null timestamp)
CurrentTimestamp == 1

DigitChar(n) == <<"1", "2", "3", "4", "5", "6", "7", "8", "9">>[n]

\* the smallest counter >= from such that `${sanitized}_${counter}` is unseen
RECURSIVE UniqueSanitized(_, _, _)
UniqueSanitized(sanitized, seen, counter) ==
    LET candidate == sanitized \o <<"_", DigitChar(counter)>>
    IN IF candidate \in seen
       THEN UniqueSanitized(sanitized, seen, counter + 1)
       ELSE candidate

\* the column mapping loop: original -> sanitized, made unique with _N
RECURSIVE SanitizedColumns(_, _)
SanitizedColumns(columns, seen) ==
    IF columns = <<>> THEN <<>>
    ELSE LET Unique(sanitized) == IF sanitized \in seen
                                  THEN UniqueSanitized(sanitized, seen, 1)
                                  ELSE sanitized
             Rest(name) == <<name>> \o SanitizedColumns(Tail(columns),
                                                         seen \cup {name})
         IN Rest(Unique(sanitizeColumnName(Head(columns))))

\* a check that never finds a column missing
MissingColumnsUnchecked(columns, dbColumnNames) == {}

\* sanitizedColumns.filter(col => !dbColumnNames.has(col))
MissingColumns(columns, dbColumnNames) ==
    LET Missing(sanitizedColumns) ==
            {sanitizedColumns[i] : i \in 1..Len(sanitizedColumns)} \ dbColumnNames
    IN Missing(SanitizedColumns(columns, {}))

\* value === null || value === undefined ? null : String(value)
DataValue(row, col) ==
    IF col \notin DOMAIN row THEN Null ELSE row[col]

\* the values a statement binds to the sanitized columns; columns of the
\* table that the statement does not name keep `old`
BoundValues(columns, row, old, dbColumnNames) ==
    LET Bound(sc) ==
            [d \in dbColumnNames |->
                IF \E i \in 1..Len(sc) : sc[i] = d
                THEN DataValue(row, columns[CHOOSE i \in 1..Len(sc) : sc[i] = d])
                ELSE old[d]]
    IN Bound(SanitizedColumns(columns, {}))

NullValues(dbColumnNames) == [d \in dbColumnNames |-> Null]

\* getSnapshot: SELECT ... WHERE deleted_at IS NULL ORDER BY id, mapped back
\* to the original column names (row[dbCol] || '', '' when there is no such
\* database column)
RECURSIVE ActiveRows(_)
ActiveRows(rows) ==
    IF rows = <<>> THEN <<>>
    ELSE IF Head(rows).deleted_at = NullTs
         THEN <<Head(rows)>> \o ActiveRows(Tail(rows))
         ELSE ActiveRows(Tail(rows))

getSnapshot(table, columns) ==
    LET active == ActiveRows(table.rows)
    IN [i \in 1..Len(active) |->
          [id |-> active[i].id,
           row_hash |-> active[i].row_hash,
           revision |-> active[i].revision,
           source |-> active[i].source,
           deleted_at |-> active[i].deleted_at,
           row |-> [c \in {columns[j] : j \in 1..Len(columns)} |->
                      LET dbCol == sanitizeColumnName(c)
                      IN IF dbCol \in table.cols /\ active[i].vals[dbCol] # Null
                         THEN active[i].vals[dbCol]
                         ELSE <<>>]]]

\* an UPDATE ... WHERE id = $n without the test of deleted_at
ExecUpdateAnyRow(rows, cols, columns, item, revision) ==
    [i \in 1..Len(rows) |->
        IF rows[i].id = item.dbId
        THEN [rows[i] EXCEPT !.row_hash = item.hash,
                             !.revision = revision,
                             !.source = "sheet",
                             !.vals = BoundValues(columns, item.row, @, cols)]
        ELSE rows[i]]

\* an UPDATE that does not set the revision
ExecUpdateKeepsRevision(rows, cols, columns, item, revision) ==
    [i \in 1..Len(rows) |->
        IF rows[i].id = item.dbId /\ rows[i].deleted_at = NullTs
        THEN [rows[i] EXCEPT !.row_hash = item.hash,
                             !.source = "sheet",
                             !.vals = BoundValues(columns, item.row, @, cols)]
        ELSE rows[i]]

\* UPDATE ... SET row_hash, revision, source, <columns> WHERE id = $n AND
\* deleted_at IS NULL
ExecUpdate(rows, cols, columns, item, revision) ==
    [i \in 1..Len(rows) |->
        IF rows[i].id = item.dbId /\ rows[i].deleted_at = NullTs
        THEN [rows[i] EXCEPT !.row_hash = item.hash,
                             !.revision = revision,
                             !.source = "sheet",
                             !.vals = BoundValues(columns, item.row, @, cols)]
        ELSE rows[i]]

\* INSERT INTO ... (row_hash, revision, source, <columns>); id is the next
\* value of the table's SERIAL sequence, deleted_at defaults to NULL
ExecInsert(rows, cols, columns, row, hash, revision, id) ==
    Append(rows, [id |-> id,
                  row_hash |-> hash,
                  revision |-> revision,
                  source |-> "sheet",
                  deleted_at |-> NullTs,
                  vals |-> BoundValues(columns, row, NullValues(cols), cols)])

\* a DELETE FROM ... WHERE id = $1 in the place of the soft delete
ExecDeleteRemovesRow(rows, item, revision) ==
    SelectSeq(rows, LAMBDA r : ~(r.deleted_at = NullTs /\ r.id = item.dbId))

\* a soft delete that always matches by row_hash
ExecDeleteByHash(rows, item, revision) ==
    [i \in 1..Len(rows) |->
        IF rows[i].deleted_at = NullTs /\ rows[i].row_hash = item.hash
        THEN [rows[i] EXCEPT !.deleted_at = CurrentTimestamp,
                             !.revision = revision]
        ELSE rows[i]]

\* UPDATE ... SET deleted_at = CURRENT_TIMESTAMP, revision = $1 WHERE
\* (id = $2 | row_hash = $2) AND deleted_at IS NULL
ExecDelete(rows, item, revision) ==
    [i \in 1..Len(rows) |->
        IF rows[i].deleted_at = NullTs
           /\ IF item.dbId # 0 THEN rows[i].id = item.dbId
                               ELSE rows[i].row_hash = item.hash
        THEN [rows[i] EXCEPT !.deleted_at = CurrentTimestamp,
                             !.revision = revision]
        ELSE rows[i]]

\* A row failure is a choice of the environment: NoFailure, or the number of
\* the statement for which the database raises an error. PostgreSQL then
\* aborts the transaction: every later statement of it fails as well, and
\* its COMMIT ends it as a ROLLBACK without raising an error.
NoFailure == 0
Failures(n) == {NoFailure} \cup 1..n

\* the three loops of applyDiff / the loop of storeSnapshot, statement by
\* statement; st is the state of the open transaction and of the counters
\* loops that end at the first failing statement, counting it as skipped and
\* leaving the rest of the batch and the later phases out
RECURSIVE RunStatementsStopsAtFailure(_, _, _, _, _, _, _)
RunStatementsStopsAtFailure(stmts, n, st, cols, columns, revision, fail) ==
    IF n > Len(stmts) THEN st
    ELSE IF fail = n THEN [st EXCEPT !.skipped = @ + 1, !.aborted = TRUE]
    ELSE IF stmts[n].op = "update"
    THEN RunStatementsStopsAtFailure(stmts, n + 1,
             [st EXCEPT !.rows = ExecUpdate(@, cols, columns, stmts[n].item, revision),
                        !.updated = @ + 1],
             cols, columns, revision, fail)
    ELSE IF stmts[n].op = "insert"
    THEN RunStatementsStopsAtFailure(stmts, n + 1,
             [st EXCEPT !.rows = ExecInsert(@, cols, columns, stmts[n].item.row,
                                            stmts[n].item.hash, revision, st.nextId),
                        !.nextId = @ + 1,
                        !.inserted = @ + 1],
             cols, columns, revision, fail)
    ELSE RunStatementsStopsAtFailure(stmts, n + 1,
             [st EXCEPT !.rows = ExecDelete(@, stmts[n].item, revision),
                        !.deleted = @ + 1],
             cols, columns, revision, fail)

RECURSIVE RunStatements(_, _, _, _, _, _, _)
RunStatements(stmts, n, st, cols, columns, revision, fail) ==
    IF n > Len(stmts) THEN st
    ELSE LET s == stmts[n]
             next ==
               IF s.op = "update" /\ s.item.dbId = 0
               THEN [st EXCEPT !.skipped = @ + 1]
               ELSE IF st.aborted \/ fail = n
               THEN [st EXCEPT !.skipped = @ + 1,
                               !.aborted = TRUE]
               ELSE IF s.op = "update"
               THEN [st EXCEPT !.rows = ExecUpdate(@, cols, columns, s.item, revision),
                               !.updated = @ + 1]
               ELSE IF s.op = "insert"
               THEN [st EXCEPT !.rows = ExecInsert(@, cols, columns, s.item.row,
                                                   s.item.hash, revision, st.nextId),
                               !.nextId = @ + 1,
                               !.inserted = @ + 1]
               ELSE [st EXCEPT !.rows = ExecDelete(@, s.item, revision),
                               !.deleted = @ + 1]
         IN RunStatements(stmts, n + 1, next, cols, columns, revision, fail)

Tagged(op, items) == [i \in 1..Len(items) |-> [op |-> op, item |-> items[i]]]

BeginState(table) ==
    [rows |-> table.rows, nextId |-> table.nextId, aborted |-> FALSE,
     inserted |-> 0, updated |-> 0, deleted |-> 0, skipped |-> 0]

\* an outcome whose statements stay in the table when the call throws
OutcomeKeepsWrites(table, st, threw, counts) ==
    [table |-> [table EXCEPT !.rows = IF st.aborted THEN table.rows ELSE st.rows,
                             !.nextId = st.nextId],
     threw |-> threw,
     result |-> IF threw THEN [c \in counts |-> 0]
                ELSE [c \in counts |-> st[c]]]

\* The outcome of a transaction: the table after it and what the call
\* returns or throws. A sequence value drawn inside a transaction is not
\* given back when the transaction rolls back.
Outcome(table, st, threw, counts) ==
    [table |-> [table EXCEPT !.rows = IF threw \/ st.aborted THEN table.rows
                                      ELSE st.rows,
                             !.nextId = st.nextId],
     threw |-> threw,
     result |-> IF threw THEN [c \in counts |-> 0]
                ELSE [c \in counts |-> st[c]]]

ApplyCounts == {"inserted", "updated", "deleted", "skipped"}
StoreCounts == {"inserted", "skipped"}

\* applyDiff(tableName, columns, diff, currentRevision)
applyDiff(table, columns, diff, currentRevision, fail, commitFails) ==
    IF MissingColumns(columns, table.cols) # {}
    THEN Outcome(table, BeginState(table), TRUE, ApplyCounts)
    ELSE LET stmts == Tagged("update", diff.updates)
                        \o Tagged("insert", diff.inserts)
                        \o Tagged("delete", diff.deletes)
             st == RunStatements(stmts, 1, BeginState(table), table.cols,
                                 columns, currentRevision, fail)
         IN Outcome(table, st, commitFails, ApplyCounts)

\* storeSnapshot(tableName, columns, data, computeRowHash)
storeSnapshot(table, columns, data, fail, commitFails) ==
    IF MissingColumns(columns, table.cols) # {}
    THEN Outcome(table, BeginState(table), TRUE, StoreCounts)
    ELSE LET items == [i \in 1..Len(data) |->
                         [row |-> data[i],
                          hash |-> computeRowHash(data[i], columns),
                          dbId |-> 0, index |-> i - 1]]
             st == RunStatements(Tagged("insert", items), 1, BeginState(table),
                                 table.cols, columns, 1, fail)
         IN Outcome(table, st, commitFails, StoreCounts)

(* --------------- database/operations.js: manual edits ----------------- *)
\* updateCell: UPDATE ... SET "<sanitized column>" = $1 WHERE id = $2; the
\* statement fails when the table has no such column
updateCell(table, rowId, column, value) ==
    IF sanitizeColumnName(column) \notin table.cols
    THEN [table |-> table, threw |-> TRUE]
    ELSE [table |-> [table EXCEPT !.rows =
                        [i \in 1..Len(table.rows) |->
                            IF table.rows[i].id = rowId
                            THEN [table.rows[i] EXCEPT
                                     !.vals[sanitizeColumnName(column)] = value]
                            ELSE table.rows[i]]],
          threw |-> FALSE]

\* insertRow: INSERT ... (row_hash, revision, source, <columns>) VALUES
\* (hash, 1, 'manual', ...) RETURNING id
insertRow(table, columns, rowData) ==
    IF MissingColumns(columns, table.cols) # {}
    THEN [table |-> table, threw |-> TRUE]
    ELSE [table |-> [table EXCEPT
                        !.rows = Append(@, [id |-> table.nextId,
                                            row_hash |-> computeRowHash(rowData, columns),
                                            revision |-> 1,
                                            source |-> "manual",
                                            deleted_at |-> NullTs,
                                            vals |-> BoundValues(columns, rowData,
                                                                 NullValues(table.cols),
                                                                 table.cols)]),
                        !.nextId = @ + 1],
          threw |-> FALSE]

\* SELECT COALESCE(MAX(revision), 0) FROM table (all rows, tombstones too)
RECURSIVE MaxRevision(_)
MaxRevision(rows) ==
    IF rows = <<>> THEN 0
    ELSE Max(Head(rows).revision, MaxRevision(Tail(rows)))

\* ensureTableSchema: CREATE TABLE with the sanitized columns, or ALTER TABLE
\* ADD COLUMN for those the table lacks; existing columns and rows are kept,
\* and an added column is NULL in the rows the table holds
ensureTableSchema(table, columns) ==
    [cols |-> table.cols \cup {sanitizeColumnName(columns[i]) :
                                  i \in 1..Len(columns)},
     rows |-> [r \in 1..Len(table.rows) |->
                 [table.rows[r] EXCEPT !.vals =
                     [d \in table.cols \cup {sanitizeColumnName(columns[i]) :
                                               i \in 1..Len(columns)} |->
                         IF d \in table.cols THEN table.rows[r].vals[d] ELSE Null]]],
     nextId |-> table.nextId]

(* ------------------------------ the inputs ----------------------------- *)
\* the header row of every sheet
Columns == << <<"A">>, <<"b">> >>

\* the rows a sheet can hold
RowPool ==
    { [c \in {<<"A">>, <<"b">>} |-> IF c = <<"A">> THEN <<"x">> ELSE Null],
      [c \in {<<"A">>, <<"b">>} |-> IF c = <<"A">> THEN <<"|", "b", ":">> ELSE <<>>],
      [c \in {<<"A">>, <<"b">>} |-> IF c = <<"A">> THEN <<>> ELSE <<"|", "b", ":">>] }

Sheets == UNION {[1..n -> RowPool] : n \in 0..MaxRows}

\* the successive contents of a sheet whose owner adds a row, changes a row
\* in place, removes a row and empties the sheet
RowX == [c \in {<<"A">>, <<"b">>} |-> IF c = <<"A">> THEN <<"x">> ELSE Null]
RowP == [c \in {<<"A">>, <<"b">>} |-> IF c = <<"A">> THEN <<"|", "b", ":">> ELSE <<>>]
Versions == {<<>>, <<RowX>>, <<RowP>>, <<RowX, RowP>>}

(* ------------------------------- state --------------------------------- *)
VARIABLES
    syncLocks,        \* sync-lock.js syncLocks: sheetId -> lock promise (0: no entry)
    resolved,         \* the lock promises that releaseLock() has resolved
    pc,               \* where each request is
    sheetId,          \* the sheet a request is for
    releaseLock,      \* withSyncLock's releaseLock is set
    lockPromise,      \* waitForSync's lockPromise
    elapsed,          \* ticks since waitForSync armed its timer
    outcome,          \* how withSyncLock ended for the request
    woke,             \* what ended the request's wait
    source,           \* the sheets' rows
    tables,           \* the sheets' tables: columns, rows, SERIAL sequence
    sheetData,        \* the rows a request fetched
    dbSnapshot,       \* the snapshot a request read
    currentRevision,  \* the revision a request computed
    syncResult,       \* the counts the request's store call returned
    stale,            \* another request wrote the table after the snapshot was read
    args,             \* the arguments of a direct call of a diff-engine function
    returned          \* what that call returned

lockVars == <<syncLocks, resolved, releaseLock, lockPromise, elapsed, outcome, woke>>
dataVars == <<source, tables, sheetData, dbSnapshot, currentRevision,
              syncResult, stale>>
callVars == <<args, returned>>
vars == <<syncLocks, resolved, pc, sheetId, releaseLock, lockPromise, elapsed,
          outcome, woke, source, tables, sheetData, dbSnapshot,
          currentRevision, syncResult, stale, args, returned>>

NoLock == 0
NoCall == [fn |-> "none"]
NoResult == [c \in ApplyCounts |-> 0]
EmptyTable == [cols |-> {}, rows |-> <<>>, nextId |-> 1]

\* the states in which the request's syncFunction is executing
BodyStates == {"maxrev", "storeTx", "applyTx", "committed", "rolledback"}
\* the states between reading the snapshot and ending the transaction
InFlight == {"snap", "waiting", "maxrev", "storeTx", "applyTx"}

\* the state of a fresh server process over the sheets src
InitWith(src) ==
    /\ syncLocks = [k \in Keys |-> NoLock]
    /\ resolved = {}
    /\ pc = [c \in Callers |-> "idle"]
    /\ sheetId = [c \in Callers |-> "none"]
    /\ releaseLock = [c \in Callers |-> FALSE]
    /\ lockPromise = [c \in Callers |-> NoLock]
    /\ elapsed = [c \in Callers |-> 0]
    /\ outcome = [c \in Callers |-> "pending"]
    /\ woke = [c \in Callers |-> "none"]
    /\ source = src
    /\ tables = [k \in Keys |-> EmptyTable]
    /\ sheetData = [c \in Callers |-> <<>>]
    /\ dbSnapshot = [c \in Callers |-> <<>>]
    /\ currentRevision = [c \in Callers |-> 0]
    /\ syncResult = [c \in Callers |-> NoResult]
    /\ stale = [c \in Callers |-> FALSE]
    /\ args = NoCall
    /\ returned = NoCall

\* the same, at the call of a function of diff-engine.js with arguments a
CallInit(a) ==
    /\ syncLocks = [k \in Keys |-> NoLock]
    /\ resolved = {}
    /\ pc = [c \in Callers |-> "idle"]
    /\ sheetId = [c \in Callers |-> "none"]
    /\ releaseLock = [c \in Callers |-> FALSE]
    /\ lockPromise = [c \in Callers |-> NoLock]
    /\ elapsed = [c \in Callers |-> 0]
    /\ outcome = [c \in Callers |-> "pending"]
    /\ woke = [c \in Callers |-> "none"]
    /\ source = [k \in Keys |-> <<>>]
    /\ tables = [k \in Keys |-> EmptyTable]
    /\ sheetData = [c \in Callers |-> <<>>]
    /\ dbSnapshot = [c \in Callers |-> <<>>]
    /\ currentRevision = [c \in Callers |-> 0]
    /\ syncResult = [c \in Callers |-> NoResult]
    /\ stale = [c \in Callers |-> FALSE]
    /\ args = a
    /\ returned = NoCall

(* ------------------------- sync-lock.js -------------------------------- *)
isSyncInProgress(k) == syncLocks[k] # NoLock

\* an acquireSyncLock that sets the entry without testing the key
acquireWithoutCheck(c, k) ==
    [threw |-> FALSE, locks |-> [syncLocks EXCEPT ![k] = c]]

\* an acquireSyncLock that tests whether any key has an entry
acquireGlobalLock(c, k) ==
    IF \E j \in Keys : isSyncInProgress(j)
    THEN [threw |-> TRUE, locks |-> syncLocks]
    ELSE [threw |-> FALSE, locks |-> [syncLocks EXCEPT ![k] = c]]

\* acquireSyncLock: throws when the key has an entry, else stores a new lock
\* promise (named after the request that created it) and returns the release
\* function. There is no await between the test and the set.
acquireSyncLock(c, k) ==
    IF isSyncInProgress(k)
    THEN [threw |-> TRUE, locks |-> syncLocks]
    ELSE [threw |-> FALSE, locks |-> [syncLocks EXCEPT ![k] = c]]

\* the release function acquireSyncLock returns
ReleaseFunction(k) == [syncLocks EXCEPT ![k] = NoLock]

\* a catch handler that leaves the lock map alone
TimeoutHandlerKeepsEntry(k) == syncLocks

\* waitForSync's catch handler, run when the timer wins the race
TimeoutHandler(k) == [syncLocks EXCEPT ![k] = NoLock]

(* ---------------------- the sync request handlers ---------------------- *)
\* fetchSheetData, ensureTableSchema and getSnapshot, up to the call of
\* withSyncLock, as one step: the request holds no lock yet, and the snapshot
\* is the last of the three reads. The sheet is not edited while a request
\* is under way (see SyncNext), so the rows fetched are those of the moment
\* of the snapshot. The requests are numbered in their order of arrival.
FetchAndSnapshot(c, k) ==
    /\ pc[c] = "idle"
    /\ \A d \in Callers : d < c => pc[d] # "idle"
    /\ LET t == ensureTableSchema(tables[k], Columns)
       IN /\ tables' = [tables EXCEPT ![k] = t]
          /\ dbSnapshot' = [dbSnapshot EXCEPT ![c] = getSnapshot(t, Columns)]
    /\ pc' = [pc EXCEPT ![c] = "snap"]
    /\ sheetId' = [sheetId EXCEPT ![c] = k]
    /\ sheetData' = [sheetData EXCEPT ![c] = source[k]]
    /\ UNCHANGED <<callVars, lockVars, source, currentRevision, syncResult, stale>>

\* withSyncLock is called. When acquireSyncLock returns the release
\* function, syncFunction starts: it computes the diff and calls
\* storeSnapshot (empty snapshot), which opens its transaction, or queries
\* the maximal revision. When acquireSyncLock throws, the catch block calls
\* waitForSync, which returns at once without an entry and else races the
\* lock promise with a timer.
CallWithSyncLock(c) ==
    /\ pc[c] = "snap"
    /\ LET k == sheetId[c]
           a == acquireSyncLock(c, k)
       IN /\ syncLocks' = a.locks
          /\ IF ~a.threw
             THEN /\ releaseLock' = [releaseLock EXCEPT ![c] = TRUE]
                  /\ pc' = [pc EXCEPT ![c] =
                              IF Len(dbSnapshot[c]) = 0 THEN "storeTx" ELSE "maxrev"]
                  /\ UNCHANGED <<lockPromise, outcome>>
             ELSE IF a.locks[k] = NoLock
             THEN /\ pc' = [pc EXCEPT ![c] = "done"]
                  /\ outcome' = [outcome EXCEPT ![c] = "contention"]
                  /\ UNCHANGED <<releaseLock, lockPromise>>
             ELSE /\ lockPromise' = [lockPromise EXCEPT ![c] = a.locks[k]]
                  /\ pc' = [pc EXCEPT ![c] = "waiting"]
                  /\ UNCHANGED <<releaseLock, outcome>>
    /\ UNCHANGED <<callVars, resolved, sheetId, elapsed, woke, dataVars>>

\* SELECT COALESCE(MAX(revision), 0): currentRevision = max_revision + 1,
\* then applyDiff opens its transaction
QueryMaxRevision(c) ==
    /\ pc[c] = "maxrev"
    /\ currentRevision' = [currentRevision EXCEPT ![c] =
                              MaxRevision(tables[sheetId[c]].rows) + 1]
    /\ pc' = [pc EXCEPT ![c] = "applyTx"]
    /\ UNCHANGED <<callVars, lockVars, sheetId, source, tables, sheetData,
                   dbSnapshot, syncResult, stale>>

\* the statements of the transaction and its COMMIT or ROLLBACK, taking
\* effect on the table at the moment the transaction ends
EndTransaction(c, fail, commitFails) ==
    /\ pc[c] \in {"storeTx", "applyTx"}
    /\ LET k == sheetId[c]
           Ended(out) ==
              /\ tables' = [tables EXCEPT ![k] = out.table]
              /\ syncResult' = [syncResult EXCEPT ![c] =
                                   [n \in ApplyCounts |->
                                       IF n \in DOMAIN out.result
                                       THEN out.result[n] ELSE 0]]
              /\ pc' = [pc EXCEPT ![c] = IF out.threw THEN "rolledback"
                                                      ELSE "committed"]
              /\ stale' = [d \in Callers |->
                              stale[d] \/ (/\ d # c
                                           /\ sheetId[d] = k
                                           /\ pc[d] \in InFlight
                                           /\ out.table.rows # tables[k].rows)]
       IN IF pc[c] = "storeTx"
          THEN Ended(storeSnapshot(tables[k], Columns, sheetData[c], fail,
                                   commitFails))
          ELSE Ended(applyDiff(tables[k], Columns,
                               computeDiff(sheetData[c], dbSnapshot[c], Columns),
                               currentRevision[c], fail, commitFails))
    /\ UNCHANGED <<callVars, lockVars, sheetId, source, sheetData, dbSnapshot,
                   currentRevision>>

\* the request's locals go out of scope
Forget(c) ==
    /\ sheetData' = [sheetData EXCEPT ![c] = <<>>]
    /\ dbSnapshot' = [dbSnapshot EXCEPT ![c] = <<>>]
    /\ currentRevision' = [currentRevision EXCEPT ![c] = 0]
    /\ stale' = [stale EXCEPT ![c] = FALSE]

\* a withSyncLock that calls the release function after the return of
\* syncFunction only, not in a finally block
ReturnWithoutFinally(c) ==
    /\ pc[c] \in {"committed", "rolledback"}
    /\ LET releases == releaseLock[c] /\ pc[c] = "committed"
       IN /\ syncLocks' = IF releases THEN ReleaseFunction(sheetId[c])
                                      ELSE syncLocks
          /\ resolved' = IF releases THEN resolved \cup {c} ELSE resolved
    /\ outcome' = [outcome EXCEPT ![c] =
                      IF pc[c] = "committed" THEN "returned" ELSE "threw"]
    /\ pc' = [pc EXCEPT ![c] = "done"]
    /\ Forget(c)
    /\ UNCHANGED <<callVars, sheetId, releaseLock, lockPromise, elapsed, woke, source,
                   tables, syncResult>>

\* the store call returns or throws to syncFunction and so to withSyncLock,
\* whose finally block calls the release function
Return(c) ==
    /\ pc[c] \in {"committed", "rolledback"}
    /\ syncLocks' = IF releaseLock[c] THEN ReleaseFunction(sheetId[c])
                                      ELSE syncLocks
    /\ resolved' = IF releaseLock[c] THEN resolved \cup {c} ELSE resolved
    /\ outcome' = [outcome EXCEPT ![c] =
                      IF pc[c] = "committed" THEN "returned" ELSE "threw"]
    /\ pc' = [pc EXCEPT ![c] = "done"]
    /\ Forget(c)
    /\ UNCHANGED <<callVars, sheetId, releaseLock, lockPromise, elapsed, woke, source,
                   tables, syncResult>>

\* a withSyncLock that, the wait over, acquires the lock and runs
\* syncFunction instead of rethrowing
WaitResolvedRetries(c) ==
    /\ pc[c] = "waiting"
    /\ lockPromise[c] \in resolved
    /\ ~isSyncInProgress(sheetId[c])
    /\ syncLocks' = acquireSyncLock(c, sheetId[c]).locks
    /\ releaseLock' = [releaseLock EXCEPT ![c] = TRUE]
    /\ pc' = [pc EXCEPT ![c] = "storeTx"]
    /\ woke' = [woke EXCEPT ![c] = "released"]
    /\ elapsed' = [elapsed EXCEPT ![c] = 0]
    /\ UNCHANGED <<callVars, resolved, sheetId, lockPromise, outcome, dataVars>>

\* the lock promise a waiter races has been resolved: waitForSync returns
\* and withSyncLock rethrows the contention error
WaitResolved(c) ==
    /\ pc[c] = "waiting"
    /\ lockPromise[c] \in resolved
    /\ pc' = [pc EXCEPT ![c] = "done"]
    /\ outcome' = [outcome EXCEPT ![c] = "contention"]
    /\ woke' = [woke EXCEPT ![c] = "released"]
    /\ elapsed' = [elapsed EXCEPT ![c] = 0]
    /\ Forget(c)
    /\ UNCHANGED <<callVars, syncLocks, resolved, sheetId, releaseLock, lockPromise,
                   source, tables, syncResult>>

\* a waitForSync that awaits the lock promise without a timer
WaitWithoutTimer(c) ==
    /\ pc[c] = "waiting"
    /\ lockPromise[c] \notin resolved
    /\ elapsed[c] = WaitTicks
    /\ UNCHANGED vars

\* the timer of waitForSync fires first: the catch handler deletes the key's
\* entry, waitForSync returns and withSyncLock rethrows the contention error
Timeout(c) ==
    /\ pc[c] = "waiting"
    /\ lockPromise[c] \notin resolved
    /\ elapsed[c] = WaitTicks
    /\ syncLocks' = TimeoutHandler(sheetId[c])
    /\ pc' = [pc EXCEPT ![c] = "done"]
    /\ outcome' = [outcome EXCEPT ![c] = "contention"]
    /\ woke' = [woke EXCEPT ![c] = "timeout"]
    /\ elapsed' = [elapsed EXCEPT ![c] = 0]
    /\ Forget(c)
    /\ UNCHANGED <<callVars, resolved, sheetId, releaseLock, lockPromise, source,
                   tables, syncResult>>

\* time passes; a timer that is due fires before time passes again
Racing(c) == pc[c] = "waiting" /\ lockPromise[c] \notin resolved

Tick ==
    /\ \E c \in Callers : Racing(c)
    /\ \A c \in Callers : Racing(c) => elapsed[c] < WaitTicks
    /\ elapsed' = [c \in Callers |-> IF Racing(c) THEN elapsed[c] + 1
                                                  ELSE elapsed[c]]
    /\ UNCHANGED <<callVars, syncLocks, resolved, pc, sheetId, releaseLock, lockPromise,
                   outcome, woke, dataVars>>

\* the sheet's owner replaces the rows of a sheet
EditSource(k, rows) ==
    /\ rows # source[k]
    /\ source' = [source EXCEPT ![k] = rows]
    /\ UNCHANGED <<callVars, lockVars, pc, sheetId, tables, sheetData, dbSnapshot,
                   currentRevision, syncResult, stale>>

Statements(c) ==
    IF pc[c] = "storeTx" THEN Len(sheetData[c])
    ELSE Max(Len(sheetData[c]), Len(dbSnapshot[c]))

\* the transaction of request c ends, under any row failure and with or
\* without a failure of its COMMIT
Transaction(c) ==
    \E fail \in Failures(Statements(c)), commitFails \in BOOLEAN :
        EndTransaction(c, fail, commitFails)

\* the steps of the requests C for the sheets K
Passes(K, C) ==
    \/ \E c \in C, k \in K : FetchAndSnapshot(c, k)
    \/ \E c \in C : CallWithSyncLock(c)
    \/ \E c \in C : QueryMaxRevision(c)
    \/ \E c \in C : Transaction(c)
    \/ \E c \in C : Return(c)
    \/ \E c \in C : WaitResolved(c)

\* the steps of the clock and of the timers
Clock ==
    \/ \E c \in Callers : Timeout(c)
    \/ Tick

\* no request is under way
Quiet == \A c \in Callers : pc[c] \in {"idle", "done"}

(* Spec: requests for two sheets whose rows do not change meanwhile.       *)
OneRow == <<CHOOSE r \in RowPool : r[<<"b">>] = Null>>

Init == InitWith([k \in Keys |-> IF k = "s1" THEN OneRow ELSE <<>>])

Next == Passes(Keys, Callers) \/ Clock

Spec == Init /\ [][Next]_vars

(* SyncSpec: requests for one sheet whose owner edits it meanwhile.        *)
SyncInit ==
    \E rows \in Sheets :
        InitWith([k \in Keys |-> IF k = "s1" THEN rows ELSE <<>>])

\* the owner edits the sheet while no request is under way
OwnerEdits == \E rows \in Sheets : Quiet /\ EditSource("s1", rows)

SyncNext == Passes({"s1"}, Callers) \/ OwnerEdits

SyncSpec == SyncInit /\ [][SyncNext]_vars

(* SerialSpec: requests for one sheet that arrive one after the other, the *)
(* owner editing the sheet between them.                                   *)
Alone(c) == \A d \in Callers \ {c} : pc[d] \in {"idle", "done"}

SerialInit ==
    \E rows \in Versions :
        InitWith([k \in Keys |-> IF k = "s1" THEN rows ELSE <<>>])

SerialEdits == \E rows \in Versions : Quiet /\ EditSource("s1", rows)

SerialNext ==
    \/ \E c \in Callers : Alone(c) /\ FetchAndSnapshot(c, "s1")
    \/ \E c \in Callers : Alone(c) /\ CallWithSyncLock(c)
    \/ \E c \in Callers : Alone(c) /\ QueryMaxRevision(c)
    \/ \E c \in Callers : Alone(c) /\ Transaction(c)
    \/ \E c \in Callers : Alone(c) /\ Return(c)
    \/ SerialEdits

SerialSpec == SerialInit /\ [][SerialNext]_vars

(* ManualSpec: SerialSpec with users who edit cells and insert rows through *)
(* the data API (app/api/data/route.js) at any time.                        *)
CellValues == {<<>>, <<"x">>}

\* PUT /api/data: updateCell on the sheet's table
UpdateCell(k, rowId, column, value) ==
    /\ ~updateCell(tables[k], rowId, column, value).threw
    /\ tables' = [tables EXCEPT ![k] = updateCell(@, rowId, column, value).table]
    /\ tables'[k] # tables[k]
    /\ UNCHANGED <<callVars, lockVars, pc, sheetId, source, sheetData, dbSnapshot,
                   currentRevision, syncResult, stale>>

\* POST /api/data: insertRow on the sheet's table
InsertRow(k, rowData) ==
    /\ Len(tables[k].rows) < MaxEntries
    /\ ~insertRow(tables[k], Columns, rowData).threw
    /\ tables' = [tables EXCEPT ![k] = insertRow(@, Columns, rowData).table]
    /\ UNCHANGED <<callVars, lockVars, pc, sheetId, source, sheetData, dbSnapshot,
                   currentRevision, syncResult, stale>>

\* the edits arrive between synchronisation passes
ManualUpdate ==
    \E rowId \in 1..MaxEntries, n \in 1..Len(Columns), value \in CellValues :
        Quiet /\ UpdateCell("s1", rowId, Columns[n], value)

ManualInsert == \E rowData \in {RowX} : Quiet /\ InsertRow("s1", rowData)

ManualNext == SerialNext \/ ManualUpdate \/ ManualInsert

ManualSpec == SerialInit /\ [][ManualNext]_vars

(* DiffSpec: calls of computeDiff on every pair of a sheet and a snapshot.  *)
\* the entries getSnapshot returns for a row: nulls read as '', the stored
\* hash present or empty
StoredRows ==
    UNION { { [row |-> [c \in DOMAIN r |-> Normalize(r, c)], row_hash |-> h] :
                h \in {<<>>, computeRowHash(r, Columns)} } : r \in RowPool }

\* snapshots, ordered by id
Snapshots ==
    UNION { { [i \in 1..n |-> [id |-> i, row_hash |-> f[i].row_hash,
                               row |-> f[i].row]] : f \in [1..n -> StoredRows] } :
            n \in 0..MaxRows }

DiffInit ==
    \E sheetRows \in Sheets, dbRows \in Snapshots :
        CallInit([fn |-> "computeDiff", sheetRows |-> sheetRows, dbRows |-> dbRows])

CallComputeDiff ==
    /\ args.fn = "computeDiff"
    /\ returned.fn = "none"
    /\ returned' = [fn |-> "computeDiff",
                    value |-> computeDiff(args.sheetRows, args.dbRows, Columns)]
    /\ UNCHANGED <<args, lockVars, pc, sheetId, dataVars>>

DiffNext == CallComputeDiff

DiffSpec == DiffInit /\ [][DiffNext]_vars

(* HashSpec: calls of computeRowHash on two rows and two column orders.    *)
HashValues == {Null, <<>>, <<"x">>, <<"|", "b", ":">>}

\* row objects: each column missing, null or a string; an extra property z
HashRows ==
    UNION { [D -> HashValues] : D \in SUBSET {<<"A">>, <<"b">>} }
    \cup UNION { { [c \in D \cup {<<"z">>} |-> IF c = <<"z">> THEN <<"x">> ELSE r[c]] :
                     r \in [D -> HashValues] } : D \in SUBSET {<<"A">>, <<"b">>} }

ColumnOrders == {Columns, << <<"b">>, <<"A">> >>}

HashInit ==
    \E r1 \in HashRows, r2 \in HashRows, c1 \in ColumnOrders, c2 \in ColumnOrders :
        CallInit([fn |-> "computeRowHash", r1 |-> r1, r2 |-> r2,
                  columns1 |-> c1, columns2 |-> c2])

CallComputeRowHash ==
    /\ args.fn = "computeRowHash"
    /\ returned.fn = "none"
    /\ returned' = [fn |-> "computeRowHash",
                    h1 |-> computeRowHash(args.r1, args.columns1),
                    h2 |-> computeRowHash(args.r2, args.columns2)]
    /\ UNCHANGED <<args, lockVars, pc, sheetId, dataVars>>

HashNext == CallComputeRowHash

HashSpec == HashInit /\ [][HashNext]_vars

(* DriftSpec: SerialSpec with an administrator who drops a column of the   *)
(* table at any time, also between a request's ensureTableSchema and its   *)
(* transaction.                                                             *)
\* ALTER TABLE ... DROP COLUMN d
DropColumn(k, d) ==
    /\ d \in tables[k].cols
    /\ tables' = [tables EXCEPT ![k] =
                    [cols |-> @.cols \ {d},
                     rows |-> [r \in 1..Len(@.rows) |->
                                 [@.rows[r] EXCEPT !.vals =
                                     [e \in tables[k].cols \ {d} |->
                                         tables[k].rows[r].vals[e]]]],
                     nextId |-> @.nextId]]
    /\ UNCHANGED <<callVars, lockVars, pc, sheetId, source, sheetData, dbSnapshot,
                   currentRevision, syncResult, stale>>

SchemaDrift == \E i \in 1..Len(Columns) : DropColumn("s1", sanitizeColumnName(Columns[i]))

DriftNext == SerialNext \/ SchemaDrift

DriftSpec == SerialInit /\ [][DriftNext]_vars

(* StaleSpec: requests for one sheet whose owner edits it at any time,     *)
(* also between the fetches of two requests that are under way.            *)
AnytimeEdits == \E rows \in Versions : EditSource("s1", rows)

StaleNext == Passes({"s1"}, Callers) \/ AnytimeEdits

StaleSpec == SerialInit /\ [][StaleNext]_vars

(* ConnSpec: calls of storeSnapshot and applyDiff, seen from the           *)
(* connection they obtain: the commands they issue on it, in order.        *)
\* a function without the finally block: the connection is released on the
\* normal return only
ConnectionLogNoFinally(statements, missing, beginFails, commitFails) ==
    IF beginFails THEN <<"BEGIN failed", "ROLLBACK">>
    ELSE IF missing THEN <<"BEGIN", "ROLLBACK">>
    ELSE <<"BEGIN">> \o [i \in 1..statements |-> "STATEMENT"]
           \o (IF commitFails THEN <<"COMMIT failed", "ROLLBACK">>
                              ELSE <<"COMMIT", "release">>)

\* try { beginTransaction; column check; the statements, each in its own
\* try/catch; commit } catch { rollback; throw } finally { release }
ConnectionLog(statements, missing, beginFails, commitFails) ==
    IF beginFails THEN <<"BEGIN failed", "ROLLBACK", "release">>
    ELSE IF missing THEN <<"BEGIN", "ROLLBACK", "release">>
    ELSE <<"BEGIN">> \o [i \in 1..statements |-> "STATEMENT"]
           \o (IF commitFails THEN <<"COMMIT failed", "ROLLBACK">>
                              ELSE <<"COMMIT">>)
           \o <<"release">>

\* tables a call can meet: not created yet, created and empty, holding rows
TxTables ==
    {EmptyTable,
     ensureTableSchema(EmptyTable, Columns),
     storeSnapshot(ensureTableSchema(EmptyTable, Columns), Columns,
                   <<RowX, RowP>>, NoFailure, FALSE).table}

ConnInit ==
    \E fn \in {"storeSnapshot", "applyDiff"}, table \in TxTables, data \in Sheets,
       fail \in Failures(MaxRows), beginFails \in BOOLEAN, commitFails \in BOOLEAN :
        CallInit([fn |-> fn, table |-> table, data |-> data, fail |-> fail,
                  beginFails |-> beginFails, commitFails |-> commitFails])

\* the diff the route passes to applyDiff for the rows it fetched
ArgsDiff == computeDiff(args.data, getSnapshot(args.table, Columns), Columns)

CallTransaction ==
    /\ args.fn \in {"storeSnapshot", "applyDiff"}
    /\ returned.fn = "none"
    /\ returned' =
         [fn |-> args.fn,
          threw |-> \/ args.beginFails
                    \/ IF args.fn = "storeSnapshot"
                       THEN storeSnapshot(args.table, Columns, args.data, args.fail,
                                          args.commitFails).threw
                       ELSE applyDiff(args.table, Columns, ArgsDiff, 2, args.fail,
                                      args.commitFails).threw,
          log |-> ConnectionLog(
                      IF args.fn = "storeSnapshot" THEN Len(args.data)
                      ELSE Len(ArgsDiff.updates) + Len(ArgsDiff.inserts)
                             + Len(ArgsDiff.deletes),
                      MissingColumns(Columns, args.table.cols) # {},
                      args.beginFails, args.commitFails)]
    /\ UNCHANGED <<args, lockVars, pc, sheetId, dataVars>>

ConnNext == CallTransaction

ConnSpec == ConnInit /\ [][ConnNext]_vars

(* FairSpec: Spec with the event loop running what is runnable: time       *)
(* passes, a due timer fires and a settled race resumes its waiter. No     *)
(* fairness is assumed of the steps of a syncFunction.                     *)
FairSpec ==
    /\ Spec
    /\ WF_vars(Tick)
    /\ \A c \in Callers : WF_vars(Timeout(c)) /\ WF_vars(WaitResolved(c))

(* ------------------------------ the claims ----------------------------- *)
InBody(c) == pc[c] \in BodyStates
\* request c takes the step that calls withSyncLock
Calls(c) == pc[c] = "snap" /\ pc'[c] # "snap"
\* request c, contending, takes the step that ends its wait
EndsWait(c) == pc[c] = "waiting" /\ pc'[c] # "waiting"

\* C1: for every key at most one syncFunction is executing at a time, also
\* when a contender's wait has timed out while the holder is still running
C1_MutualExclusion ==
    \A c, d \in Callers :
        (c # d /\ sheetId[c] = sheetId[d]) => ~(InBody(c) /\ InBody(d))

\* the passes for sheet k are over, none failed a row or threw, and at
\* least one has run
Settled(k) ==
    /\ \A c \in Callers :
          sheetId[c] = k =>
             /\ pc[c] = "done"
             /\ outcome[c] \in {"returned", "contention"}
             /\ syncResult[c].skipped = 0
    /\ \E c \in Callers : sheetId[c] = k /\ outcome[c] = "returned"

\* C2: after any sequence of passes against an unchanged source without row
\* failures the number of active entries equals the number of source rows
C2_OneActiveEntryPerRow ==
    \A k \in Keys :
        Settled(k) => Len(ActiveRows(tables[k].rows)) = Len(source[k])

\* the snapshot holds the rows of data, position by position, in ascending
\* order of id, a null or missing value counting as the empty string
Converged(snapshot, data) ==
    /\ Len(snapshot) = Len(data)
    /\ \A i \in 1..Len(snapshot) :
          /\ \A j \in 1..Len(snapshot) : i < j => snapshot[i].id < snapshot[j].id
          /\ \A col \in {Columns[n] : n \in 1..Len(Columns)} :
                snapshot[i].row[col] = Normalize(data[i], col)

\* C3: a pass that ran without a concurrent writer and returned skipped = 0
\* leaves a snapshot equal to the source it fetched
C3_Convergence ==
    [][\A c \in Callers :
          (/\ pc[c] \in {"storeTx", "applyTx"}
           /\ pc'[c] = "committed"
           /\ ~stale[c]
           /\ syncResult'[c].skipped = 0)
          => Converged(getSnapshot(tables'[sheetId[c]], Columns), sheetData[c])]_vars

\* C4: an entry of the lock map is created only by the request that
\* acquires it and removed only by that request's release
C4_OnlyHolderMutatesEntry ==
    [][\A k \in Keys :
          syncLocks'[k] # syncLocks[k] =>
             IF syncLocks[k] = NoLock
             THEN LET c == syncLocks'[k]
                  IN sheetId[c] = k /\ Calls(c) /\ releaseLock'[c]
             ELSE LET h == syncLocks[k]
                  IN /\ syncLocks'[k] = NoLock
                     /\ pc[h] \in {"committed", "rolledback"}
                     /\ pc'[h] = "done"]_vars

\* the requests for sheet k that are inside withSyncLock
Inside(k) == {c \in Callers : sheetId[c] = k /\ pc[c] \notin {"idle", "snap", "done"}}

\* C5: a withSyncLock call that acquired the lock has invoked its release
\* function when it has ended, by return or by throw; with no request
\* inside withSyncLock for a key, isSyncInProgress(key) is false and the next
\* acquireSyncLock succeeds
C5_ReleasedOnEveryExit ==
    /\ \A c \in Callers :
          (pc[c] = "done" /\ releaseLock[c]) =>
             /\ c \in resolved
             /\ outcome[c] \in {"returned", "threw"}
    /\ \A k \in Keys :
          Inside(k) = {} =>
             /\ ~isSyncInProgress(k)
             /\ \A c \in Callers : ~acquireSyncLock(c, k).threw

C5_Witness ==
    \E c, d \in Callers :
        /\ sheetId[c] = sheetId[d]
        /\ pc[c] = "done" /\ releaseLock[c] /\ outcome[c] = "threw"
        /\ pc[d] = "done" /\ releaseLock[d] /\ outcome[d] = "returned"
        /\ Inside(sheetId[c]) = {}

C7_BoundedContention ==
    /\ [](\A c \in Callers : pc[c] = "waiting" => elapsed[c] <= WaitTicks)
    /\ \A c \in Callers :
          (pc[c] = "waiting") ~> (pc[c] = "done" /\ outcome[c] = "contention")

C7_Witness ==
    \E c \in Callers :
        /\ pc[c] = "done" /\ woke[c] = "timeout"
        /\ InBody(lockPromise[c])
        /\ lockPromise[c] \notin resolved

\* the requests for sheet k that hold a release function not yet called
Holders(k) == {c \in Callers : sheetId[c] = k /\ releaseLock[c] /\ c \notin resolved}

\* C8: acquireSyncLock on a locked key throws and leaves the lock map
\* unchanged; on an idle key it records the key as locked and returns the
\* release function; of the attempts on an idle key exactly one succeeds
\* (as long as no wait has timed out, the key has at most one holder)
C8_AcquireIsAtomic ==
    /\ [][\A c \in Callers :
             Calls(c) =>
                IF isSyncInProgress(sheetId[c])
                THEN /\ acquireSyncLock(c, sheetId[c]).threw
                     /\ syncLocks' = syncLocks
                     /\ ~releaseLock'[c]
                ELSE /\ ~acquireSyncLock(c, sheetId[c]).threw
                     /\ syncLocks' = [syncLocks EXCEPT ![sheetId[c]] = c]
                     /\ releaseLock'[c]]_vars
    /\ [](\A k \in Keys :
             (\A c \in Callers : woke[c] # "timeout") =>
                /\ Cardinality(Holders(k)) <= 1
                /\ Holders(k) = IF isSyncInProgress(k) THEN {syncLocks[k]} ELSE {})

C8_Witness ==
    \E h, c, d \in Callers :
        /\ c # d /\ InBody(h)
        /\ sheetId[c] = sheetId[h] /\ sheetId[d] = sheetId[h]
        /\ syncLocks[sheetId[h]] = h
        /\ pc[c] = "waiting" /\ pc[d] = "waiting"

\* C9: locks are per key: a step of a request for one key leaves the entry
\* of every other key unchanged, a call for a key whose entry is free
\* acquires it whatever the state of the other keys, and two calls for
\* different keys run their syncFunctions at the same time
C9_LocksArePerKey ==
    [][\A c \in Callers :
          /\ pc'[c] # pc[c] =>
                \A k \in Keys : k # sheetId'[c] => syncLocks'[k] = syncLocks[k]
          /\ (Calls(c) /\ ~isSyncInProgress(sheetId[c])) =>
                InBody(c)' /\ syncLocks'[sheetId[c]] = c]_vars

C9_Witness ==
    \E c, d, w \in Callers :
        /\ sheetId[c] = "s1" /\ sheetId[d] = "s2"
        /\ InBody(c) /\ InBody(d)
        /\ sheetId[w] = "s1" /\ woke[w] = "timeout"

\* C10: when a contender's wait times out the key's entry is removed and the
\* next acquireSyncLock for the key succeeds; when the holder has released
\* before the timeout the waiter removes no entry
C10_TimeoutClearsEntry ==
    [][\A c \in Callers :
          EndsWait(c) =>
             IF lockPromise[c] \in resolved
             THEN syncLocks' = syncLocks
             ELSE /\ elapsed[c] = WaitTicks
                  /\ syncLocks' = [syncLocks EXCEPT ![sheetId[c]] = NoLock]
                  /\ \A d \in Callers : ~acquireSyncLock(d, sheetId[c]).threw']_vars

C10_Witness ==
    \E c, d \in Callers :
        /\ woke[c] = "timeout" /\ woke[d] = "released"
        /\ lockPromise[d] = lockPromise[c]
        /\ ~isSyncInProgress(sheetId[c])
        /\ \A e \in Callers : ~acquireSyncLock(e, sheetId[c]).threw

\* the diff request c computed from what it fetched and read
PassDiff(c) == computeDiff(sheetData[c], dbSnapshot[c], Columns)

\* request c's applyDiff ends with a COMMIT that commits: no statement failed
\* and the call returns
AppliesCleanly(c) ==
    /\ pc[c] = "applyTx"
    /\ pc'[c] = "committed"
    /\ syncResult'[c].skipped = 0

\* the ids of the items of a list of the diff
DbIds(items) == {items[j].dbId : j \in 1..Len(items)}

\* C11: after a committed applyDiff with a delete for an active entry, the
\* entry has deleted_at non-null, is absent from the next getSnapshot and
\* its row is still stored; no step ever removes a stored row
C11_Tombstones ==
    [][\A k \in Keys :
          LET old == tables[k].rows
              new == tables'[k].rows
          IN /\ Len(old) <= Len(new)
             /\ \A i \in 1..Len(old) : new[i].id = old[i].id
             /\ \A c \in Callers :
                   (AppliesCleanly(c) /\ sheetId[c] = k) =>
                      \A i \in 1..Len(old) :
                         (/\ old[i].id \in DbIds(PassDiff(c).deletes)
                          /\ old[i].deleted_at = NullTs)
                         => /\ new[i].deleted_at # NullTs
                            /\ \A j \in 1..Len(getSnapshot(tables'[k], Columns)) :
                                  getSnapshot(tables'[k], Columns)[j].id # old[i].id]_vars

C11_Witness ==
    \E c \in Callers :
        /\ pc[c] = "committed"
        /\ syncResult[c].deleted >= 1 /\ syncResult[c].skipped = 0
        /\ \E i \in 1..Len(tables[sheetId[c]].rows) :
              /\ tables[sheetId[c]].rows[i].deleted_at # NullTs
              /\ tables[sheetId[c]].rows[i].revision = currentRevision[c]

\* C12: after applyDiff with revision N commits, every entry it inserted,
\* updated or tombstoned carries revision N (inserted and updated entries
\* source 'sheet'), and every other entry is as it was
C12_RevisionFrame ==
    [][\A c \in Callers :
          AppliesCleanly(c) =>
             LET old == tables[sheetId[c]].rows
                 new == tables'[sheetId[c]].rows
                 N == currentRevision[c]
                 Active(i) == old[i].deleted_at = NullTs
             IN \A i \in 1..Len(new) :
                   IF i > Len(old)
                   THEN new[i].revision = N /\ new[i].source = "sheet"
                   ELSE IF Active(i) /\ old[i].id \in DbIds(PassDiff(c).updates)
                   THEN new[i].revision = N /\ new[i].source = "sheet"
                   ELSE IF Active(i) /\ old[i].id \in DbIds(PassDiff(c).deletes)
                   THEN new[i].revision = N /\ new[i].deleted_at # NullTs
                   ELSE new[i] = old[i]]_vars

C12_Witness ==
    \E c \in Callers :
        /\ pc[c] = "committed"
        /\ syncResult[c].updated >= 1 /\ syncResult[c].inserted >= 1
        /\ syncResult[c].skipped = 0
        /\ \E i, j \in 1..Len(tables[sheetId[c]].rows) :
              /\ tables[sheetId[c]].rows[i].revision = currentRevision[c]
              /\ tables[sheetId[c]].rows[j].revision < currentRevision[c]

\* the revision the transaction of request c stamps on what it touches
StampedRevision(c) == IF pc[c] = "storeTx" THEN 1 ELSE currentRevision[c]

\* C13: the revision a committed pass stamps on the entries it touches is
\* greater than or equal to the revision stamped by every earlier pass
C13_MonotonicRevisions ==
    [][\A c \in Callers :
          (/\ pc[c] \in {"storeTx", "applyTx"}
           /\ pc'[c] = "committed"
           /\ tables'[sheetId[c]].rows # tables[sheetId[c]].rows)
          => StampedRevision(c) >= MaxRevision(tables[sheetId[c]].rows)]_vars

\* C14: each active entry's stored row_hash equals computeRowHash of the
\* entry's current column values, after any sequence of storeSnapshot,
\* applyDiff, insertRow and updateCell
C14_HashMatchesValues ==
    \A k \in Keys :
        \A i \in 1..Len(getSnapshot(tables[k], Columns)) :
            getSnapshot(tables[k], Columns)[i].row_hash
              = computeRowHash(getSnapshot(tables[k], Columns)[i].row, Columns)

\* what a further pass for sheet k does to table t when it reads the source
\* rows: storeSnapshot on an empty snapshot, applyDiff of the diff otherwise
NextPass(t, rows) ==
    IF Len(getSnapshot(t, Columns)) = 0
    THEN storeSnapshot(t, Columns, rows, NoFailure, FALSE)
    ELSE applyDiff(t, Columns, computeDiff(rows, getSnapshot(t, Columns), Columns),
                   MaxRevision(t.rows) + 1, NoFailure, FALSE)

EmptyDiff(diff) ==
    Len(diff.inserts) = 0 /\ Len(diff.updates) = 0 /\ Len(diff.deletes) = 0

\* request c completes its pass with skipped = 0 on a source that is still
\* what the request fetched
CompletesClean(c) ==
    /\ pc[c] \in {"storeTx", "applyTx"}
    /\ pc'[c] = "committed"
    /\ syncResult'[c].skipped = 0
    /\ source'[sheetId[c]] = sheetData[c]

\* C15: after a pass completed with skipped = 0 on an unchanged source,
\* computeDiff of the source against the resulting snapshot has no inserts,
\* updates or deletes, and a further pass changes no entry
C15_NoOpPassIdempotent ==
    [][\A c \in Callers :
          CompletesClean(c) =>
             /\ EmptyDiff(computeDiff(source'[sheetId[c]],
                                      getSnapshot(tables'[sheetId[c]], Columns),
                                      Columns))
             /\ NextPass(tables'[sheetId[c]], source'[sheetId[c]]).table.rows
                  = tables'[sheetId[c]].rows]_vars

Indexes(items) == {items[j].index : j \in 1..Len(items)}

Positions(sheetRows, dbRows) == 0..(Max(Len(sheetRows), Len(dbRows)) - 1)

Partitions(d, positions) ==
    /\ Cardinality(Indexes(d.inserts)) = Len(d.inserts)
    /\ Cardinality(Indexes(d.updates)) = Len(d.updates)
    /\ Cardinality(Indexes(d.deletes)) = Len(d.deletes)
    /\ Indexes(d.inserts) \cap Indexes(d.updates) = {}
    /\ Indexes(d.inserts) \cap Indexes(d.deletes) = {}
    /\ Indexes(d.updates) \cap Indexes(d.deletes) = {}
    /\ Indexes(d.inserts) \cup Indexes(d.updates) \cup Indexes(d.deletes)
         \subseteq positions
    /\ d.unchanged = Cardinality(positions \ (Indexes(d.inserts)
                                                \cup Indexes(d.updates)
                                                \cup Indexes(d.deletes)))
    /\ Len(d.inserts) + Len(d.updates) + Len(d.deletes) + d.unchanged
         = Cardinality(positions)

\* C16: computeDiff puts each position 0..max(len(source), len(snapshot))-1
\* into exactly one of insert, update, delete or unchanged, and
\* len(inserts) + len(updates) + len(deletes) + unchanged = max of the lengths
C16_DiffComplete ==
    returned.fn = "computeDiff" =>
        Partitions(returned.value, Positions(args.sheetRows, args.dbRows))

C16_Witness ==
    /\ returned.fn = "computeDiff"
    /\ Len(returned.value.deletes) >= 1
    /\ Len(returned.value.updates) >= 1
    /\ Len(args.dbRows) > Len(args.sheetRows)

\* the rows have the same normalized value ('' for null or missing) in every
\* column of the column list
SameContent(r1, r2) ==
    \A c \in {<<"A">>, <<"b">>} :
        (IF c \in DOMAIN r1 /\ r1[c] # Null THEN r1[c] ELSE <<>>)
          = (IF c \in DOMAIN r2 /\ r2[c] # Null THEN r2[c] ELSE <<>>)

\* C17: computeRowHash returns the same value for two rows with the same
\* normalized value in every column, whatever the order of `columns`, the
\* extra properties, and null, missing or '' for an empty value
C17_HashDeterministic ==
    (returned.fn = "computeRowHash" /\ SameContent(args.r1, args.r2))
        => returned.h1 = returned.h2

C17_Witness ==
    /\ returned.fn = "computeRowHash"
    /\ SameContent(args.r1, args.r2)
    /\ args.columns1 # args.columns2
    /\ DOMAIN args.r1 = {<<"A">>, <<"z">>}
    /\ DOMAIN args.r2 = {<<"A">>, <<"b">>}
    /\ args.r2[<<"b">>] = Null
    /\ args.r1[<<"A">>] = <<"|", "b", ":">>
    /\ returned.h1 = returned.h2

\* C18: for a fixed column list, two rows that differ in the normalized
\* value of a column have different canonical strings, values with ':' and
\* '|' included
C18_HashSensitive ==
    (/\ returned.fn = "computeRowHash"
     /\ args.columns1 = args.columns2
     /\ ~SameContent(args.r1, args.r2))
        => returned.h1 # returned.h2

\* the number of entries of the diff of request c (for storeSnapshot the
\* snapshot is empty and every sheet row is an insert)
Entries(c) ==
    Len(PassDiff(c).inserts) + Len(PassDiff(c).updates) + Len(PassDiff(c).deletes)

Count(result, n) == IF n \in DOMAIN result THEN result[n] ELSE 0

Total(result) ==
    Count(result, "inserted") + Count(result, "updated")
      + Count(result, "deleted") + Count(result, "skipped")

\* what the transaction of request c returns when statement number fail
\* fails and the COMMIT goes through
TxOutcome(c, fail) ==
    IF pc[c] = "storeTx"
    THEN storeSnapshot(tables[sheetId[c]], Columns, sheetData[c], fail, FALSE)
    ELSE applyDiff(tables[sheetId[c]], Columns, PassDiff(c), currentRevision[c],
                   fail, FALSE)

Absorbed(c, fail, out) ==
    /\ ~out.threw
    /\ Total(out.result) = Entries(c)
    /\ fail \in 1..Entries(c) => out.result.skipped >= 1

\* C19: in applyDiff and storeSnapshot the failure of a row's statement does
\* not make the call throw, it increments skipped, the other rows are still
\* attempted, and on return inserted + updated + deleted + skipped is the
\* number of diff entries (inserted + skipped = len(rows) for storeSnapshot)
C19_RowFailuresAbsorbed ==
    \A c \in Callers :
        /\ pc[c] \in {"storeTx", "applyTx"} =>
              \A fail \in Failures(Statements(c)) :
                  Absorbed(c, fail, TxOutcome(c, fail))
        /\ pc[c] = "committed" => Total(syncResult[c]) = Entries(c)

C19_Witness ==
    \E c \in Callers :
        /\ pc[c] = "committed"
        /\ syncResult[c].skipped >= 1
        /\ syncResult[c].inserted >= 1
        /\ Total(syncResult[c]) = Len(sheetData[c])

\* request c's transaction returns normally with a failed row
ReturnsPartial(c) ==
    /\ pc[c] \in {"storeTx", "applyTx"}
    /\ pc'[c] = "committed"
    /\ syncResult'[c].skipped >= 1

ActiveCount(table) == Len(getSnapshot(table, Columns))

\* C20: when a row's statement fails and the call returns normally, the rows
\* counted as inserted, updated and deleted are persisted: the next
\* getSnapshot shows as many more entries as were counted inserted and as
\* many fewer as were counted deleted, and it differs from the previous one
\* when a row was counted as successful
C20_PartialSuccessPersisted ==
    [][\A c \in Callers :
          ReturnsPartial(c) =>
             /\ ActiveCount(tables'[sheetId[c]])
                  = ActiveCount(tables[sheetId[c]])
                      + syncResult'[c].inserted - syncResult'[c].deleted
             /\ (syncResult'[c].inserted + syncResult'[c].updated
                   + syncResult'[c].deleted >= 1)
                  => getSnapshot(tables'[sheetId[c]], Columns)
                       # getSnapshot(tables[sheetId[c]], Columns)]_vars

\* what the transaction of request c does when statement number fail fails
\* (NoFailure: none) and its COMMIT fails
CommitFailure(c, fail) ==
    IF pc[c] = "storeTx"
    THEN storeSnapshot(tables[sheetId[c]], Columns, sheetData[c], fail, TRUE)
    ELSE applyDiff(tables[sheetId[c]], Columns, PassDiff(c), currentRevision[c],
                   fail, TRUE)

RollsBack(c) == pc[c] \in {"storeTx", "applyTx"} /\ pc'[c] = "rolledback"

\* C21: when the COMMIT of applyDiff or storeSnapshot fails, the call throws
\* to the caller, returns no counts, and the stored entries are those that
\* existed before the call
C21_CommitFailureRollsBack ==
    /\ [](\A c \in Callers :
             pc[c] \in {"storeTx", "applyTx"} =>
                \A fail \in Failures(Statements(c)) :
                    /\ CommitFailure(c, fail).threw
                    /\ CommitFailure(c, fail).table.rows = tables[sheetId[c]].rows)
    /\ [][\A c \in Callers :
             /\ RollsBack(c) =>
                   /\ tables'[sheetId[c]].rows = tables[sheetId[c]].rows
                   /\ syncResult'[c] = NoResult
             /\ (pc[c] = "rolledback" /\ pc'[c] = "done") => outcome'[c] = "threw"]_vars

C21_Witness ==
    \E c \in Callers :
        /\ pc[c] = "rolledback"
        /\ Entries(c) >= 1
        /\ Len(tables[sheetId[c]].rows) >= 1
        /\ getSnapshot(tables[sheetId[c]], Columns) = dbSnapshot[c]

\* the table of request c lacks a sanitized column of the header row
LacksColumn(c) ==
    \E i \in 1..Len(Columns) :
        sanitizeColumnName(Columns[i]) \notin tables[sheetId[c]].cols

\* C22: when a sanitized column required by `columns` is absent from the
\* table, applyDiff and storeSnapshot throw, execute no UPDATE, INSERT or
\* soft delete (no id of the sequence is drawn either), and leave every
\* stored entry unchanged
C22_SchemaMismatchBeforeWrites ==
    [][\A c \in Callers :
          /\ (pc[c] \in {"storeTx", "applyTx"} /\ LacksColumn(c) /\ pc'[c] # pc[c]) =>
                /\ pc'[c] = "rolledback"
                /\ tables'[sheetId[c]] = tables[sheetId[c]]
                /\ syncResult'[c] = NoResult
          /\ (pc[c] = "rolledback" /\ pc'[c] = "done") => outcome'[c] = "threw"]_vars

C22_Witness ==
    \E c \in Callers :
        /\ pc[c] = "rolledback"
        /\ LacksColumn(c)
        /\ Entries(c) >= 1
        /\ Len(tables[sheetId[c]].rows) >= 1
        /\ syncResult[c] = NoResult

\* C23: a pass executes storeSnapshot only when the key has no active entry
\* at the moment its transaction runs
C23_StoreOnlyWhenEmpty ==
    [][\A c \in Callers :
          (pc[c] = "storeTx" /\ pc'[c] # pc[c]) =>
              Len(getSnapshot(tables[sheetId[c]], Columns)) = 0]_vars

\* the ids of the active entries of a table
ActiveIds(table) ==
    {table.rows[i].id : i \in {j \in 1..Len(table.rows) :
                                  table.rows[j].deleted_at = NullTs}}

\* the update items of request c whose target entry is not active
DeadUpdates(c) ==
    {j \in 1..Len(PassDiff(c).updates) :
        PassDiff(c).updates[j].dbId \notin ActiveIds(tables[sheetId[c]])}

\* C24: an update of applyDiff whose target entry is no longer active changes
\* nothing in the store and is counted in skipped, not in updated
C24_DeadUpdateSkipped ==
    [][\A c \in Callers :
          (pc[c] = "applyTx" /\ pc'[c] = "committed") =>
             /\ \A j \in DeadUpdates(c) :
                   \A i \in 1..Len(tables[sheetId[c]].rows) :
                       tables[sheetId[c]].rows[i].id = PassDiff(c).updates[j].dbId
                          => tables'[sheetId[c]].rows[i] = tables[sheetId[c]].rows[i]
             /\ syncResult'[c].skipped >= Cardinality(DeadUpdates(c))
             /\ syncResult'[c].updated
                  <= Len(PassDiff(c).updates) - Cardinality(DeadUpdates(c))]_vars

\* the 0-based positions present in both lists whose hashes differ, the
\* entry's hash being the stored one, or the recomputed one when none is stored
Changed(sheetRows, dbRows) ==
    {i \in 0..(Len(sheetRows) - 1) :
        /\ i < Len(dbRows)
        /\ computeRowHash(sheetRows[i + 1], Columns)
             # (IF dbRows[i + 1].row_hash = <<>>
                THEN computeRowHash(dbRows[i + 1].row, Columns)
                ELSE dbRows[i + 1].row_hash)}

CarryIds(items, dbRows) ==
    \A j \in 1..Len(items) : items[j].dbId = dbRows[items[j].index + 1].id

Classified(d, sheetRows, dbRows) ==
    /\ Indexes(d.inserts) = {i \in 0..(Len(sheetRows) - 1) : i >= Len(dbRows)}
    /\ Indexes(d.deletes) = {i \in 0..(Len(dbRows) - 1) : i >= Len(sheetRows)}
    /\ Indexes(d.updates) = Changed(sheetRows, dbRows)
    /\ Len(d.inserts) = Cardinality(Indexes(d.inserts))
    /\ Len(d.deletes) = Cardinality(Indexes(d.deletes))
    /\ Len(d.updates) = Cardinality(Indexes(d.updates))
    /\ CarryIds(d.deletes, dbRows)
    /\ CarryIds(d.updates, dbRows)

\* C25: computeDiff emits an insert for exactly the positions of the source
\* beyond the snapshot, a delete with the entry's id for exactly the
\* positions of the snapshot beyond the source, an update with the entry's id
\* for exactly the common positions whose hashes differ, and nothing else
C25_PositionalClassification ==
    returned.fn = "computeDiff" =>
        Classified(returned.value, args.sheetRows, args.dbRows)

C25_Witness ==
    /\ returned.fn = "computeDiff"
    /\ Len(args.sheetRows) = 2
    /\ Len(args.dbRows) = 2
    /\ args.dbRows[1].row_hash = <<>>
    /\ args.dbRows[2].row_hash = <<>>
    /\ Indexes(returned.value.updates) = {1}

\* the orders in which the three loops of applyDiff can be arranged
PhaseOrders ==
    {o \in [1..3 -> {"update", "insert", "delete"}] :
        {o[1], o[2], o[3]} = {"update", "insert", "delete"}}

PhaseItems(diff, op) ==
    IF op = "update" THEN diff.updates
    ELSE IF op = "insert" THEN diff.inserts
    ELSE diff.deletes

\* the entries of the table after the loops of applyDiff, run in the order o
\* without a failure
EntriesAfter(table, diff, revision, o) ==
    { RunStatements(Tagged(o[1], PhaseItems(diff, o[1]))
                      \o Tagged(o[2], PhaseItems(diff, o[2]))
                      \o Tagged(o[3], PhaseItems(diff, o[3])),
                    1, BeginState(table), table.cols, Columns, revision,
                    NoFailure).rows[i] : i \in 1..(Len(table.rows) + Len(diff.inserts)) }

DisjointLists(d) ==
    /\ DbIds(d.updates) \cap DbIds(d.deletes) = {}
    /\ Cardinality(DbIds(d.updates)) = Len(d.updates)
    /\ Cardinality(DbIds(d.deletes)) = Len(d.deletes)
    /\ Indexes(d.inserts) \cap Indexes(d.updates) = {}
    /\ Indexes(d.inserts) \cap Indexes(d.deletes) = {}
    /\ Indexes(d.updates) \cap Indexes(d.deletes) = {}

\* C26: no entry id occurs in both updates and deletes or twice in a list, no
\* position occurs in two lists, and the loops of applyDiff run in any order
\* leave the same entries as the order updates, inserts, deletes
C26_PhaseOrderIrrelevant ==
    \A c \in Callers :
        pc[c] = "applyTx" =>
           /\ DisjointLists(PassDiff(c))
           /\ \A o \in PhaseOrders :
                 EntriesAfter(tables[sheetId[c]], PassDiff(c), currentRevision[c], o)
                   = {TxOutcome(c, NoFailure).table.rows[i] :
                         i \in 1..Len(TxOutcome(c, NoFailure).table.rows)}

C26_Witness ==
    \E c \in Callers :
        /\ pc[c] = "committed"
        /\ syncResult[c].updated >= 1
        /\ syncResult[c].deleted >= 1
        /\ syncResult[c].skipped = 0
        /\ Len(PassDiff(c).updates) >= 1
        /\ Len(PassDiff(c).deletes) >= 1

\* request c invokes its release function while the key's entry is the lock
\* promise of another request
ReleasesOverOther(c) ==
    /\ pc[c] \in {"committed", "rolledback"}
    /\ pc'[c] = "done"
    /\ releaseLock[c]
    /\ syncLocks[sheetId[c]] \notin {c, NoLock}

\* C27: a release function removes only the entry its own acquireSyncLock
\* created: invoked after that entry was cleared by a timed-out waiter and the
\* key was acquired again, it leaves the new holder's entry in the map
C27_ReleaseOnlyOwnEntry ==
    [][\A c \in Callers :
          ReleasesOverOther(c) =>
              syncLocks'[sheetId[c]] = syncLocks[sheetId[c]]]_vars

\* C28: once an entry has deleted_at non-null, no later storeSnapshot or
\* applyDiff, whatever its diff and however stale the snapshot it was computed
\* from, sets deleted_at back to null or changes the entry's column values,
\* hash, source or revision
C28_TombstonesPermanent ==
    [][\A k \in Keys :
          \A i \in 1..Len(tables[k].rows) :
              tables[k].rows[i].deleted_at # NullTs =>
                 /\ i <= Len(tables'[k].rows)
                 /\ tables'[k].rows[i] = tables[k].rows[i]]_vars

C28_Witness ==
    \E c \in Callers :
        /\ pc[c] = "committed"
        /\ DeadUpdates(c) # {}
        /\ syncResult[c].updated = Len(PassDiff(c).updates)
        /\ \E i \in 1..Len(tables[sheetId[c]].rows) :
              /\ tables[sheetId[c]].rows[i].deleted_at # NullTs
              /\ tables[sheetId[c]].rows[i].id = PassDiff(c).updates[1].dbId
              /\ tables[sheetId[c]].rows[i].revision < currentRevision[c]

\* C29: a call of applyDiff or storeSnapshot that obtained a connection
\* releases it exactly once, as its last command, on every exit path, and
\* every BEGIN is followed by a COMMIT or a ROLLBACK before the release; the
\* call throws exactly when it rolled back
C29_ConnectionReleasedOnce ==
    returned.fn \in {"storeSnapshot", "applyDiff"} =>
       /\ Cardinality({i \in 1..Len(returned.log) : returned.log[i] = "release"}) = 1
       /\ returned.log[Len(returned.log)] = "release"
       /\ \A i \in 1..Len(returned.log) :
             returned.log[i] \in {"BEGIN", "COMMIT failed"} =>
                \E j \in (i + 1)..(Len(returned.log) - 1) :
                    returned.log[j] \in {"COMMIT", "ROLLBACK"}
       /\ returned.threw <=> (\E i \in 1..Len(returned.log) : returned.log[i] = "ROLLBACK")

C29_Witness ==
    /\ returned.fn = "applyDiff"
    /\ returned.threw
    /\ returned.log = <<"BEGIN", "STATEMENT", "STATEMENT", "COMMIT failed",
                        "ROLLBACK", "release">>

\* withSyncLock returns to the route of request c, which then calls
\* broadcastSync with 'sync-completed'
Broadcasts(c) == outcome[c] # "returned" /\ outcome'[c] = "returned"

\* the transaction of request c ended with a COMMIT that the database
\* executed as one: no statement of it had failed
Committed(c) == pc[c] = "committed" /\ syncResult[c].skipped = 0

\* C30: 'sync-completed' is broadcast only by a pass whose storeSnapshot or
\* applyDiff transaction committed, and only after the pass released the
\* key's lock; a pass that meets lock contention or whose apply throws
\* broadcasts nothing
C30_BroadcastAfterCommit ==
    [][\A c \in Callers :
          /\ Broadcasts(c) =>
                /\ Committed(c)
                /\ syncLocks'[sheetId[c]] # c
          /\ (pc[c] \in {"rolledback", "waiting", "snap"} /\ pc'[c] = "done")
                => ~Broadcasts(c)]_vars

====
